---------------------------- MODULE Spec2Model ----------------------------
(***************************************************************************)
(* Model of the image post-processing gulp tasks of nhwwnhww/photography:  *)
(*   - src/unnamed/part_000 : resize-images with EXIF watermark bar        *)
(*     (ensureMagick, rationalToFloat, readExif, imageDims, addWatermark)  *)
(*   - src/gulpfile.js      : the plain resize-images task                 *)
(*                                                                         *)
(* JavaScript strings are modelled as sequences of one-character strings   *)
(* so that split / trim / includes / Number() are computed, not assumed.   *)
(* JavaScript numbers are modelled as exact signed rationals plus NaN and  *)
(* +/-Infinity (JSNum below).                                              *)
(***************************************************************************)
EXTENDS Integers, Sequences, FiniteSets, TLC

\* The one element of a singleton set.  Intermediate values are bound as
\* Only({Body(x) : x \in {e}}) where a LET name would be used several times, so
\* that e is evaluated once.
Only(S) == CHOOSE r \in S : TRUE

(***************************************************************************)
(* Strings as character sequences                                          *)
(***************************************************************************)
DigitChars == <<"0", "1", "2", "3", "4", "5", "6", "7", "8", "9">>

IsDigit(c) == \E i \in 1..10 : DigitChars[i] = c

DigitVal(c) == (CHOOSE i \in 1..10 : DigitChars[i] = c) - 1

IsSpace(c) == c \in {" ", "\n", "\t", "\r"}

\* String.prototype.includes for a one-character needle
Includes(s, c) == \E i \in 1..Len(s) : s[i] = c

RECURSIVE TrimLeft(_)
TrimLeft(s) == IF s # <<>> /\ IsSpace(Head(s)) THEN TrimLeft(Tail(s)) ELSE s

RECURSIVE TrimRight(_)
TrimRight(s) ==
    IF s # <<>> /\ IsSpace(s[Len(s)]) THEN TrimRight(SubSeq(s, 1, Len(s) - 1)) ELSE s

\* String.prototype.trim
Trim(s) == TrimRight(TrimLeft(s))

\* String.prototype.split for a one-character separator: "" splits to [""].
\* The pieces lie between consecutive occurrences of the separator.
SeparatorPositions(s, sep) == SelectSeq([i \in 1..Len(s) |-> i], LAMBDA i : s[i] = sep)

PiecesBetween(s, at) ==
    [k \in 1..(Len(at) + 1) |->
        SubSeq(s, (IF k = 1 THEN 0 ELSE at[k - 1]) + 1,
                  (IF k > Len(at) THEN Len(s) + 1 ELSE at[k]) - 1)]

Split(s, sep) == Only({PiecesBetween(s, at) : at \in {SeparatorPositions(s, sep)}})

\* Array.prototype.join
RECURSIVE Join(_, _)
Join(parts, sep) ==
    IF parts = <<>> THEN <<>>
    ELSE IF Len(parts) = 1 THEN parts[1]
    ELSE parts[1] \o sep \o Join(Tail(parts), sep)

\* decimal digits of a natural number
RECURSIVE NatToStr(_)
NatToStr(n) ==
    IF n < 10 THEN <<DigitChars[n + 1]>>
    ELSE Append(NatToStr(n \div 10), DigitChars[(n % 10) + 1])

RECURSIVE StrToNat(_)
StrToNat(s) ==
    IF s = <<>> THEN 0 ELSE 10 * StrToNat(SubSeq(s, 1, Len(s) - 1)) + DigitVal(s[Len(s)])

AllDigits(s) == \A i \in 1..Len(s) : IsDigit(s[i])

(***************************************************************************)
(* JavaScript numbers: [t |-> "num", s |-> sign, n |-> magnitude           *)
(* numerator, d |-> denominator], [t |-> "inf", s], [t |-> "nan"]          *)
(* The sign is kept apart from the magnitude because JavaScript has -0.    *)
(***************************************************************************)
NaN == [t |-> "nan", s |-> 1, n |-> 0, d |-> 1]

Infinity(sign) == [t |-> "inf", s |-> sign, n |-> 0, d |-> 1]

RECURSIVE Gcd(_, _)
Gcd(a, b) == IF b = 0 THEN a ELSE Gcd(b, a % b)

Num(sign, n, d) ==
    LET g == IF n = 0 THEN d ELSE Gcd(n, d)
    IN [t |-> "num", s |-> sign, n |-> n \div g, d |-> d \div g]

IsFinite(x) == x.t = "num"

IsZero(x) == x.t = "num" /\ x.n = 0

\* ToBoolean of a number: false for +0, -0 and NaN
NumTruthy(x) == ~(x.t = "nan" \/ IsZero(x))

\* x < y for JavaScript numbers (false whenever NaN is involved; -0 = +0)
NumLess(x, y) ==
    IF x.t = "nan" \/ y.t = "nan" THEN FALSE
    ELSE IF x.t = "inf" THEN x.s = -1 /\ ~(y.t = "inf" /\ y.s = -1)
    ELSE IF y.t = "inf" THEN y.s = 1
    ELSE x.s * x.n * y.d < y.s * y.n * x.d

\* a / b
NumDiv(a, b) ==
    IF a.t = "nan" \/ b.t = "nan" THEN NaN
    ELSE IF a.t = "inf" THEN (IF b.t = "inf" THEN NaN ELSE Infinity(a.s * b.s))
    ELSE IF b.t = "inf" THEN Num(a.s * b.s, 0, 1)
    ELSE IF b.n = 0 THEN (IF a.n = 0 THEN NaN ELSE Infinity(a.s * b.s))
    ELSE Num(a.s * b.s, a.n * b.d, a.d * b.n)

One == Num(1, 1, 1)

RECURSIVE Pow10(_)
Pow10(k) == IF k = 0 THEN 1 ELSE 10 * Pow10(k - 1)

RECURSIVE Pow2(_)
Pow2(k) == IF k = 0 THEN 1 ELSE 2 * Pow2(k - 1)

\* Number(s) for strings without exponent or radix prefix: optional sign,
\* "Infinity", or decimal digits with an optional point; "" is 0
DecimalParts(sign, parts) ==
    IF Len(parts) = 1 /\ parts[1] # <<>> /\ AllDigits(parts[1])
    THEN Num(sign, StrToNat(parts[1]), 1)
    ELSE IF Len(parts) = 2 /\ AllDigits(parts[1]) /\ AllDigits(parts[2])
            /\ (parts[1] # <<>> \/ parts[2] # <<>>)
         THEN Num(sign, StrToNat(parts[1]) * Pow10(Len(parts[2])) + StrToNat(parts[2]),
                  Pow10(Len(parts[2])))
    ELSE NaN

ParseDecimal(sign, body) ==
    IF body = <<"I", "n", "f", "i", "n", "i", "t", "y">> THEN Infinity(sign)
    ELSE Only({DecimalParts(sign, parts) : parts \in {Split(body, ".")}})

TrimmedToNumber(t) ==
    IF t = <<>> THEN Num(1, 0, 1)
    ELSE IF Head(t) = "-" THEN Only({ParseDecimal(-1, b) : b \in {Tail(t)}})
    ELSE IF Head(t) = "+" THEN Only({ParseDecimal(1, b) : b \in {Tail(t)}})
    ELSE ParseDecimal(1, t)

ToNumber(s) == Only({TrimmedToNumber(t) : t \in {Trim(s)}})

\* Math.round: floor(x + 0.5); keeps NaN and the infinities; may yield -0
MathRound(x) ==
    IF x.t # "num" THEN x
    ELSE IF x.s = 1 \/ x.n = 0 THEN Num(x.s, (2 * x.n + x.d) \div (2 * x.d), 1)
    ELSE LET f == (x.d - 2 * x.n) \div (2 * x.d)
         IN IF f >= 0 THEN Num(-1, 0, 1) ELSE Num(-1, -f, 1)

\* number of decimals of a terminating decimal fraction with denominator d
DecimalPlaces(d) == CHOOSE k \in 0..9 : Pow10(k) % d = 0 /\ \A j \in 0..(k - 1) : Pow10(j) % d # 0

RECURSIVE PadLeft(_, _)
PadLeft(s, len) == IF Len(s) >= len THEN s ELSE PadLeft(<<"0">> \o s, len)

\* Number::toString for NaN, the infinities and terminating decimals
NumToStr(x) ==
    IF x.t = "nan" THEN <<"N", "a", "N">>
    ELSE IF x.t = "inf"
         THEN (IF x.s = -1 THEN <<"-">> ELSE <<>>) \o <<"I", "n", "f", "i", "n", "i", "t", "y">>
    ELSE IF x.n = 0 THEN <<"0">>
    ELSE Only({(IF x.s = -1 THEN <<"-">> ELSE <<>>)
               \o NatToStr((x.n * (Pow10(k) \div x.d)) \div Pow10(k))
               \o (IF k = 0 THEN <<>>
                   ELSE <<".">> \o PadLeft(NatToStr((x.n * (Pow10(k) \div x.d)) % Pow10(k)), k))
               : k \in {DecimalPlaces(x.d)}})

\* tenths of a magnitude n/d rounded to nearest, ties to the larger
RoundTenths(n, d) == (20 * n + d) \div (2 * d)

TenthsToStr(neg, k) ==
    (IF neg THEN <<"-">> ELSE <<>>) \o NatToStr(k \div 10) \o <<".", DigitChars[(k % 10) + 1]>>

\* Number.prototype.toFixed(1)
ToFixed1(x) ==
    IF x.t # "num" THEN NumToStr(x)
    ELSE TenthsToStr(x.s = -1 /\ x.n # 0, RoundTenths(x.n, x.d))

\* String.prototype.replace(/\.0$/, '')
StripDotZero(s) ==
    IF Len(s) >= 2 /\ s[Len(s) - 1] = "." /\ s[Len(s)] = "0"
    THEN SubSeq(s, 1, Len(s) - 2) ELSE s

RECURSIVE IntPow(_, _)
IntPow(b, e) == IF e = 0 THEN 1 ELSE b * IntPow(b, e - 1)

\* round(scale * 2^(sign*p/q)) for naturals p and scale, q >= 1: the k with
\* (2k-1)^q <= (2*scale)^q * 2^(sign*p) < (2k+1)^q
Pow2RootRound(scale, sign, p, q) ==
    CHOOSE k \in 0..20000 :
        IF sign = 1
        THEN /\ (k = 0 \/ IntPow(2 * k - 1, q) <= IntPow(2 * scale, q) * Pow2(p))
             /\ IntPow(2 * scale, q) * Pow2(p) < IntPow(2 * k + 1, q)
        ELSE /\ (k = 0 \/ IntPow(2 * k - 1, q) * Pow2(p) <= IntPow(2 * scale, q))
             /\ IntPow(2 * scale, q) < IntPow(2 * k + 1, q) * Pow2(p)

\* Math.pow(Math.SQRT2, av).toFixed(1) for a JavaScript number av
PowSqrt2Fixed1(av) ==
    IF av.t = "nan" THEN NumToStr(NaN)
    ELSE IF av.t = "inf" THEN (IF av.s = 1 THEN NumToStr(Infinity(1)) ELSE <<"0", ".", "0">>)
    ELSE IF av.n = 0 THEN <<"1", ".", "0">>
    ELSE TenthsToStr(FALSE, Pow2RootRound(10, av.s, av.n, 2 * av.d))

(***************************************************************************)
(* rationalToFloat and readExif (src/unnamed/part_000)                     *)
(***************************************************************************)
\* the value of a destructured array element that does not exist
Undefined == <<"undefined">>

\* ToBoolean of a string or undefined
Truthy(s) == s # <<>> /\ s # Undefined

Null == [t |-> "null", s |-> 1, n |-> 0, d |-> 1]

\* lines 37-38
FiniteOrNull(n) == IF IsFinite(n) THEN n ELSE Null

\* lines 34-35: const [a, b] = s.split('/').map(Number); if (b) return a / b;
RatioOrNumber(s, a, b) ==
    IF NumTruthy(b) THEN NumDiv(a, b) ELSE Only({FiniteOrNull(n) : n \in {ToNumber(s)}})

rationalToFloat(s) ==
    IF ~Truthy(s) THEN Null
    ELSE IF Includes(s, "/")
         THEN Only({RatioOrNumber(s, a, b)
                    : a \in {ToNumber(Split(s, "/")[1])}, b \in {ToNumber(Split(s, "/")[2])}})
    ELSE Only({FiniteOrNull(n) : n \in {ToNumber(s)}})

\* x.toFixed(1).replace(/\.0$/, '')
Fixed1Stripped(x) == StripDotZero(ToFixed1(x))

\* the shutter speed value always shown as seconds with one decimal
ApexSeconds(tv) ==
    IF tv.t # "num" THEN NumToStr(NaN) \o <<"s">>
    ELSE StripDotZero(TenthsToStr(FALSE, Pow2RootRound(10, -tv.s, tv.n, tv.d))) \o <<"s">>

\* t = Math.pow(2, -tv); t < 1 ? `1/${Math.round(1 / t)}`
\*                             : `${t.toFixed(1).replace(/\.0$/, '')}s`
ApexExposure(tv) ==
    IF tv.t = "nan" THEN NumToStr(NaN) \o <<"s">>
    ELSE IF tv.t = "inf"
         THEN (IF tv.s = 1 THEN <<"1", "/">> \o NumToStr(Infinity(1))
               ELSE NumToStr(Infinity(1)) \o <<"s">>)
    ELSE IF tv.s = 1 /\ tv.n # 0
         THEN <<"1", "/">> \o NatToStr(Pow2RootRound(1, 1, tv.n, tv.d))
    ELSE StripDotZero(TenthsToStr(FALSE, Pow2RootRound(10, 1, tv.n, tv.d))) \o <<"s">>

\* t = Number(exposure); t < 1 ? `1/${Math.round(1 / t)}` : `${t}s`
FormatSeconds(exposure, t) ==
    IF ~IsFinite(t) THEN exposure
    ELSE IF NumLess(t, One)
         THEN <<"1", "/">> \o Only({NumToStr(r) : r \in {MathRound(NumDiv(One, t))}})
    ELSE NumToStr(t) \o <<"s">>

BareExposure(exposure) == Only({FormatSeconds(exposure, t) : t \in {ToNumber(exposure)}})

Camera == <<"C", "a", "m", "e", "r", "a">>

OrEmpty(s) == IF Truthy(s) THEN s ELSE <<>>

\* line 54: (stdout || '').trim().split('|').map(s => (s || '').trim()),
\* destructured into seven names
ExifFields(stdout) ==
    Only({[i \in 1..7 |-> IF i <= Len(raw) THEN Trim(raw[i]) ELSE Undefined]
          : raw \in {Split(Trim(stdout), "|")}})

\* the aperture value formatted with one decimal, the trailing .0 kept
ApertureKeepsDotZero(fnum, avFloat) ==
    IF avFloat # Null THEN PowSqrt2Fixed1(avFloat) ELSE fnum

\* lines 59-60
ApertureFNumber(fnum, avFloat) ==
    IF avFloat # Null THEN StripDotZero(PowSqrt2Fixed1(avFloat)) ELSE fnum

\* lines 63-64
RationalFNumber(fNumber, rf) == IF rf # Null THEN Fixed1Stripped(rf) ELSE fNumber

\* lines 62-65
DecimalFNumber(fNumber) ==
    IF Truthy(fNumber) /\ Includes(fNumber, "/")
    THEN Only({RationalFNumber(fNumber, rf) : rf \in {rationalToFloat(fNumber)}})
    ELSE fNumber

\* lines 57-65
ResolveFNumber(fnum, av) ==
    IF ~Truthy(fnum) /\ Truthy(av)
    THEN Only({DecimalFNumber(f) :
               f \in {Only({ApertureFNumber(fnum, a) : a \in {rationalToFloat(av)}})}})
    ELSE DecimalFNumber(fnum)

\* lines 72-75
ShutterExposure(exp, tv) == IF tv # Null THEN ApexExposure(tv) ELSE exp

\* lines 77-80
DisplayExposure(exposure) ==
    IF Truthy(exposure) /\ ~Includes(exposure, "/") THEN BareExposure(exposure) ELSE exposure

\* lines 68-80
ResolveExposure(exp, ssv) ==
    IF ~Truthy(exp) /\ Truthy(ssv)
    THEN Only({DisplayExposure(e) :
               e \in {Only({ShutterExposure(exp, tv) : tv \in {rationalToFloat(ssv)}})}})
    ELSE DisplayExposure(exp)

\* lines 82-83
ExifRecord(model, fNumber, exposure, isoA, isoB) ==
    [model |-> IF Truthy(model) THEN model ELSE Camera,
     fNumber |-> OrEmpty(fNumber),
     exposure |-> OrEmpty(exposure),
     iso |-> IF Truthy(isoA) THEN isoA ELSE IF Truthy(isoB) THEN isoB ELSE <<>>]

\* lines 54-83: the record readExif builds from the stdout of magick identify
ParseExif(stdout) ==
    Only({Only({ExifRecord(f[1], fNumber, exposure, f[6], f[7])
                : fNumber \in {ResolveFNumber(f[2], f[3])},
                  exposure \in {ResolveExposure(f[4], f[5])}})
          : f \in {ExifFields(stdout)}})

(***************************************************************************)
(* imageDims and addWatermark (src/unnamed/part_000)                       *)
(***************************************************************************)
Max(a, b) == IF a >= b THEN a ELSE b

\* Math.round(x * num / den) for integers x and a decimal factor num/den
RoundMul(x, num, den) == (2 * x * num + den) \div (2 * den)

\* String.prototype.split(/\s+/) of a trimmed string
RECURSIVE SplitWsAcc(_, _)
SplitWsAcc(s, cur) ==
    IF s = <<>> THEN <<cur>>
    ELSE IF IsSpace(Head(s))
         THEN (IF Len(s) > 1 /\ IsSpace(s[2]) THEN SplitWsAcc(Tail(s), cur)
               ELSE <<cur>> \o SplitWsAcc(Tail(s), <<>>))
    ELSE SplitWsAcc(Tail(s), Append(cur, Head(s)))

\* lines 88-89: (stdout || '0 0').trim().split(/\s+/).map(Number), for an
\* output of two natural numbers or an empty output
imageDims(stdout) ==
    Only({[w |-> StrToNat(toks[1]), h |-> StrToNat(toks[2])]
          : toks \in {SplitWsAcc(Trim(IF stdout = <<>> THEN <<"0", " ", "0">> ELSE stdout),
                                 <<>>)}})

\* what `magick identify -format "%w %h"` prints for an image of w by h
DimsOutput(w, h) == NatToStr(w) \o <<" ">> \o NatToStr(h) \o <<"\n">>

\* the optional parameter pointSizeOverride: <<>> when the caller omits it
NoOverride == <<>>

\* lines 94-96 and 115: point size, bar height, bar top, text offset
PointSize(w, pointSizeOverride) ==
    IF pointSizeOverride # NoOverride /\ pointSizeOverride[1] # 0
    THEN pointSizeOverride[1]
    ELSE Max(14, RoundMul(w, 28, 1000))

BarHeight(ps) == Max(50, RoundMul(ps, 22, 10))

\* faulty variant: the bar top without the clamp at the image's upper edge
UnclampedBarTop(h, barHeight) == h - barHeight

BarTop(h, barHeight) == Max(0, h - barHeight)

WatermarkSpec(w, h, pointSizeOverride) ==
    Only({Only({[ps |-> ps, barHeight |-> barHeight, y0 |-> BarTop(h, barHeight),
                 textOffset |-> RoundMul(barHeight, 35, 100), w |-> w, h |-> h]
                : barHeight \in {BarHeight(ps)}})
          : ps \in {PointSize(w, pointSizeOverride)}})

\* the image the compositing command would write if the bar were appended
\* below the picture instead of drawn over it
BarAppended(w, h, g) == [w |-> w, h |-> h + g.barHeight]

\* lines 106-119: -draw and -annotate paint on the canvas of the input, so the
\* image written has the width and height of the image read
Composited(w, h, g) == [w |-> w, h |-> h]

\* the two non-ASCII glyphs of the watermark line, each one character
CameraIcon == "<camera>"

Bullet == "<bullet>"

\* the separator of parts.join('   ')
Separator == <<" ", " ", " ">>

\* null, an entry of the parts array that .filter(Boolean) removes
JSNull == <<"null">>

\* lines 98-103 before .filter(Boolean)
WatermarkCandidates(exifInfo) ==
    << <<CameraIcon, " ">> \o exifInfo.model,
       IF Truthy(exifInfo.fNumber) THEN <<Bullet, " ", "f", "/">> \o exifInfo.fNumber ELSE JSNull,
       IF Truthy(exifInfo.exposure) THEN <<Bullet, " ">> \o exifInfo.exposure ELSE JSNull,
       IF Truthy(exifInfo.iso) THEN <<Bullet, " ", "I", "S", "O", " ">> \o exifInfo.iso
       ELSE JSNull >>

\* Array.prototype.join prints null as the empty string
JoinJS(parts, sep) ==
    Join([i \in 1..Len(parts) |-> IF parts[i] = JSNull THEN <<>> ELSE parts[i]], sep)

FilterBoolean(parts) == SelectSeq(parts, LAMBDA p : p # JSNull /\ p # <<>>)

\* faulty variant: the parts array without .filter(Boolean)
UnfilteredParts(exifInfo) == WatermarkCandidates(exifInfo)

\* lines 98-104: parts and text
WatermarkParts(exifInfo) == FilterBoolean(WatermarkCandidates(exifInfo))

WatermarkText(exifInfo) == JoinJS(WatermarkParts(exifInfo), Separator)

\* line 115: text.replace(/(["\\])/g, '\\$1'), halving the text
RECURSIVE EscapeText(_)
EscapeText(s) ==
    IF s = <<>> THEN <<>>
    ELSE IF Len(s) = 1
         THEN (IF s[1] \in {"\"", "\\"} THEN <<"\\", s[1]>> ELSE s)
    ELSE Only({EscapeText(a) \o EscapeText(b) : a \in {SubSeq(s, 1, Len(s) \div 2)},
                                                b \in {SubSeq(s, Len(s) \div 2 + 1, Len(s))}})

(***************************************************************************)
(* The file system and the external image toolchain                        *)
(***************************************************************************)
\* most image files the images/ directory holds at the start of a run
MaxFiles == 2

\* what `magick identify -format "%[EXIF:Model]|..."` prints for a file
\* without EXIF data (and for every file after -strip)
StrippedExif == <<"|", "|", "|", "|", "|", "|">>

NikonExif ==
    <<"N", "i", "k", "o", "n", " ", "D", "9", "0", "|", "2", "8", "/", "1", "0", "|", "|",
      "1", "/", "2", "5", "0", "|", "|", "4", "0", "0", "|", "\n">>

ApexExif == <<"|", "|", "3", "|", "|", "-", "1", "|", "|", "2", "0", "0">>

\* the entries images/ may hold, in directory order; notes.txt is no image
Entries ==
    << [base |-> "a", ext |-> "jpg", w |-> 2000, h |-> 1500, exif |-> NikonExif],
       [base |-> "b", ext |-> "PNG", w |-> 2000, h |-> 50, exif |-> StrippedExif],
       [base |-> "notes", ext |-> "txt", w |-> 0, h |-> 0, exif |-> <<>>],
       [base |-> "temp_a", ext |-> "jpg", w |-> 300, h |-> 400, exif |-> ApexExif] >>

EntryName(e) == e.base \o "." \o e.ext

\* line 133 (gulpfile.js 28-30): /\.(jpg|jpeg|png|gif|webp)$/i.test(f)
IsImageName(e) ==
    e.ext \in {"jpg", "jpeg", "png", "gif", "webp", "JPG", "JPEG", "PNG", "GIF", "WEBP"}

ImageEntries == {i \in 1..Len(Entries) : IsImageName(Entries[i])}

\* lines 144-147, 158-159: the paths of one file
PathOf(role, file) ==
    CASE role = "orig" -> "images/" \o file
      [] role = "temp" -> "images/temp_" \o file
      [] role = "tempFull" -> "images/temp_full_" \o file
      [] role = "tempThumb" -> "images/temp_thumb_" \o file
      [] role = "outFull" -> "images/fulls/" \o file
      [] role = "outThumb" -> "images/thumbs/" \o file

Roles == {"orig", "temp", "tempFull", "tempThumb", "outFull", "outThumb"}

TempRoles == {"temp", "tempFull", "tempThumb"}

AllPaths == {PathOf(r, EntryName(Entries[i])) : r \in Roles, i \in 1..Len(Entries)}

NoExif == [model |-> <<>>, fNumber |-> <<>>, exposure |-> <<>>, iso |-> <<>>]

Absent ==
    [kind |-> "absent", of |-> "", exif |-> <<>>, w |-> 0, h |-> 0, wm |-> <<>>,
     by |-> "", text |-> ""]

ImageFile(of, exif, w, h, wm, by) ==
    [kind |-> "image", of |-> of, exif |-> exif, w |-> w, h |-> h, wm |-> wm,
     by |-> by, text |-> ""]

\* what a command that failed while writing may leave at its output path
PartialFile(by) == [Absent EXCEPT !.kind = "partial", !.by = by]

TextFile(text, by) == [Absent EXCEPT !.kind = "text", !.text = text, !.by = by]

\* -resize NxN: fit into the box, keeping the aspect ratio
ResizeDims(w, h, box) ==
    IF w >= h THEN [w |-> box, h |-> Max(1, (2 * h * box + w) \div (2 * w))]
    ELSE [w |-> Max(1, (2 * w * box + h) \div (2 * h)), h |-> box]

\* the image a successful magick/convert command writes
ConvertOutput(input, box, by) ==
    IF box = 0 THEN ImageFile(input.of, StrippedExif, input.w, input.h, input.wm, by)
    ELSE LET d == ResizeDims(input.w, input.h, box)
         IN ImageFile(input.of, input.exif, d.w, d.h, input.wm, by)

\* the characters of a sequence as one string, halving the sequence
RECURSIVE Flatten(_)
Flatten(s) ==
    IF s = <<>> THEN ""
    ELSE IF Len(s) = 1 THEN s[1]
    ELSE Only({Flatten(a) \o Flatten(b) : a \in {SubSeq(s, 1, Len(s) \div 2)},
                                          b \in {SubSeq(s, Len(s) \div 2 + 1, Len(s))}})

IntText(n) == Flatten(IF n < 0 THEN <<"-">> \o NatToStr(-n) ELSE NatToStr(n))

Quoted(path) == "\"" \o path \o "\""

(***************************************************************************)
(* The two resize-images tasks as step tables                              *)
(***************************************************************************)
Scripts == {"part_000", "gulpfile.js"}

Step(op, in, out, opts, box, override) ==
    [op |-> op, in |-> in, out |-> out, opts |-> opts, box |-> box, override |-> override]

\* faulty variant: the metadata is read from the normalized intermediate,
\* after -strip has run
MetadataAfterStrip(script) ==
    IF script = "part_000"
    THEN << Step("identify", "orig", "", "-verbose", 0, NoOverride),
            Step("convert", "orig", "temp", "-auto-orient -strip", 0, NoOverride),
            Step("readExif", "temp", "", "", 0, NoOverride),
            Step("convert", "temp", "tempFull", "-resize 1024x1024", 1024, NoOverride),
            Step("convert", "temp", "tempThumb", "-resize 512x512", 512, NoOverride),
            Step("watermark", "tempFull", "outFull", "", 0, NoOverride),
            Step("copy", "tempThumb", "outThumb", "", 0, NoOverride),
            Step("cleanup", "", "", "", 0, NoOverride) >>
    ELSE << Step("identify", "orig", "", "-verbose", 0, NoOverride),
            Step("convert", "orig", "temp", "-auto-orient -strip", 0, NoOverride),
            Step("convert", "temp", "outFull", "-resize 1024x1024 -quality 80", 1024,
                 NoOverride),
            Step("convert", "temp", "outThumb", "-resize 512x512 -quality 70", 512,
                 NoOverride),
            Step("unlink", "temp", "", "", 0, NoOverride) >>

\* the steps inside the outer try block
PrimaryPath(script) ==
    IF script = "part_000"
    THEN << Step("readExif", "orig", "", "", 0, NoOverride),
            Step("identify", "orig", "", "-verbose", 0, NoOverride),
            Step("convert", "orig", "temp", "-auto-orient -strip", 0, NoOverride),
            Step("convert", "temp", "tempFull", "-resize 1024x1024", 1024, NoOverride),
            Step("convert", "temp", "tempThumb", "-resize 512x512", 512, NoOverride),
            Step("watermark", "tempFull", "outFull", "", 0, NoOverride),
            Step("copy", "tempThumb", "outThumb", "", 0, NoOverride),
            Step("cleanup", "", "", "", 0, NoOverride) >>
    ELSE << Step("identify", "orig", "", "-verbose", 0, NoOverride),
            Step("convert", "orig", "temp", "-auto-orient -strip", 0, NoOverride),
            Step("convert", "temp", "outFull", "-resize 1024x1024 -quality 80", 1024,
                 NoOverride),
            Step("convert", "temp", "outThumb", "-resize 512x512 -quality 70", 512,
                 NoOverride),
            Step("unlink", "temp", "", "", 0, NoOverride) >>

\* faulty variant: the handler resizes the full tier a second time
FallbackRetried(script) ==
    IF script = "part_000"
    THEN << Step("readExif", "orig", "", "", 0, NoOverride),
            Step("convert", "orig", "outFull", "-resize 1024x1024 -quality 80", 1024,
                 NoOverride),
            Step("convert", "orig", "outFull", "-resize 1024x1024 -quality 80", 1024,
                 NoOverride),
            Step("convert", "orig", "outThumb", "-resize 512x512  -quality 70", 512,
                 NoOverride),
            Step("watermark", "outFull", "outFull", "", 0, NoOverride),
            Step("watermark", "outThumb", "outThumb", "", 0, <<14>>) >>
    ELSE << Step("convert", "orig", "outFull", "-resize 1024x1024 -quality 80", 1024,
                 NoOverride),
            Step("convert", "orig", "outFull", "-resize 1024x1024 -quality 80", 1024,
                 NoOverride),
            Step("convert", "orig", "outThumb", "-resize 512x512 -quality 70", 512,
                 NoOverride) >>

\* faulty variant: the handler watermarks the full tier only
FallbackFullTierOnly(script) ==
    IF script = "part_000"
    THEN << Step("readExif", "orig", "", "", 0, NoOverride),
            Step("convert", "orig", "outFull", "-resize 1024x1024 -quality 80", 1024,
                 NoOverride),
            Step("convert", "orig", "outThumb", "-resize 512x512  -quality 70", 512,
                 NoOverride),
            Step("watermark", "outFull", "outFull", "", 0, NoOverride) >>
    ELSE << Step("convert", "orig", "outFull", "-resize 1024x1024 -quality 80", 1024,
                 NoOverride),
            Step("convert", "orig", "outThumb", "-resize 512x512 -quality 70", 512,
                 NoOverride) >>

\* the steps inside the try block of the catch handler
FallbackPath(script) ==
    IF script = "part_000"
    THEN << Step("readExif", "orig", "", "", 0, NoOverride),
            Step("convert", "orig", "outFull", "-resize 1024x1024 -quality 80", 1024,
                 NoOverride),
            Step("convert", "orig", "outThumb", "-resize 512x512  -quality 70", 512,
                 NoOverride),
            Step("watermark", "outFull", "outFull", "", 0, NoOverride),
            Step("watermark", "outThumb", "outThumb", "", 0, <<14>>) >>
    ELSE << Step("convert", "orig", "outFull", "-resize 1024x1024 -quality 80", 1024,
                 NoOverride),
            Step("convert", "orig", "outThumb", "-resize 512x512 -quality 70", 512,
                 NoOverride) >>

\* the files the cleanup at line 169 removes
CleanupRoles == <<"temp", "tempFull", "tempThumb">>

ExifFormat ==
    "%[EXIF:Model]|%[EXIF:FNumber]|%[EXIF:ApertureValue]|%[EXIF:ExposureTime]|"
    \o "%[EXIF:ShutterSpeedValue]|%[EXIF:ISOSpeedRatings]|%[EXIF:PhotographicSensitivity]"

\* the command line of a step, as the scripts build it
CommandLine(script, st, file) ==
    LET magick == IF script = "part_000" THEN "magick" ELSE "convert"
        identify == IF script = "part_000" THEN "magick identify" ELSE "identify"
    IN CASE st.op = "readExif" ->
              identify \o " -format " \o Quoted(ExifFormat) \o " " \o Quoted(PathOf(st.in, file))
         [] st.op = "identify" ->
              identify \o " " \o st.opts \o " " \o Quoted(PathOf(st.in, file))
         [] st.op = "convert" ->
              magick \o " " \o Quoted(PathOf(st.in, file)) \o " " \o st.opts \o " "
              \o Quoted(PathOf(st.out, file))
         [] st.op = "watermark" ->
              "magick identify -format " \o Quoted("%w %h") \o " " \o Quoted(PathOf(st.in, file))

\* lines 106-117: the compositing command of addWatermark
CompositeCommand(inputPath, outputPath, g, text) ==
    "magick " \o Quoted(inputPath) \o " -fill " \o Quoted("#00000080")
    \o " -draw " \o Quoted("rectangle 0," \o IntText(g.y0) \o " " \o IntText(g.w) \o ","
                           \o IntText(g.h))
    \o " -gravity southwest -pointsize " \o IntText(g.ps) \o " -kerning 1 -fill white"
    \o " -annotate +20+" \o IntText(g.textOffset) \o " " \o Quoted(Flatten(EscapeText(text)))
    \o " " \o Quoted(outputPath)

\* the message of the error execAsync rejects with
CommandFailed(cmd) == "Command failed: " \o cmd

\* faulty variant: the placeholder reports the fallback's error
LastErrorPlaceholder(file, errMessage, fallbackErrMessage) ==
    "ERROR PROCESSING: " \o file \o "\n" \o fallbackErrMessage

\* lines 183-184 (gulpfile.js 84-85)
PlaceholderText(file, errMessage, fallbackErrMessage) ==
    "ERROR PROCESSING: " \o file \o "\n" \o errMessage

\* lines 41-84: readExif raises when the identify command fails
readExif(cmdOk, stdout) ==
    IF cmdOk THEN [raised |-> FALSE, rec |-> ParseExif(stdout)]
    ELSE [raised |-> TRUE, rec |-> NoExif]

\* faulty variant: the handler rethrows and the task rejects
Rethrown == "rejected"

\* lines 181-186 (gulpfile.js 80-87): the handler swallows the fallback's
\* error and the for loop goes on
AfterFallbackError == "loop"

(***************************************************************************)
(* State                                                                   *)
(***************************************************************************)
VARIABLES
    script,     \* which gulpfile runs: "part_000" or "gulpfile.js"
    toolOk,     \* whether the image toolchain can be invoked at all
    dirs,       \* the directories that exist
    fs,         \* path -> file content
    files,      \* the listing the task loops over
    idx,        \* position of the for loop in files
    pc,         \* "ensureMagick", "scan", "loop", "step", "composite", "done", "rejected"
    branch,     \* "primary" (outer try) or "fallback" (try inside the handler)
    stepNo,     \* position in the branch's step table
    exif,       \* const exif of the running try block
    dims,       \* { w, h } inside addWatermark
    err,        \* err.message of the handler's err
    outcome,    \* per finished file: "Success", "FallbackSuccess", "Failure"
    log,        \* the calls made for the current file, in order
    exifCall,   \* readExif called on its own: the identify outcome
    exifRet,    \* ... and what it returned
    wmCall,     \* addWatermark's computation called on its own: its arguments
    wmRet       \* ... and what it computed

pipeVars ==
    <<script, toolOk, dirs, fs, files, idx, pc, branch, stepNo, exif, dims, err, outcome, log>>

fnVars == <<exifCall, exifRet, wmCall, wmRet>>

vars == <<pipeVars, fnVars>>

NoDims == [w |-> 0, h |-> 0]

IdleExifCall == [cmdOk |-> TRUE, stdout |-> <<>>, fields |-> [i \in 1..7 |-> <<>>]]

IdleExifRet == [state |-> "idle", rec |-> NoExif]

IdleWmCall == [w |-> 0, h |-> 0, override |-> NoOverride, exifInfo |-> NoExif, inPlace |-> FALSE]

IdleWmRet ==
    [state |-> "idle", g |-> WatermarkSpec(0, 0, NoOverride), text |-> <<>>,
     prev |-> WatermarkSpec(0, 0, NoOverride), out |-> [w |-> 0, h |-> 0]]

SourceFile(e) == ImageFile(EntryName(e), e.exif, e.w, e.h, <<>>, "source")

\* images/ is missing, or holds notes.txt and up to MaxFiles images
InitPipeline ==
    /\ script \in Scripts
    /\ toolOk \in BOOLEAN
    /\ \E present \in SUBSET (1..Len(Entries)) :
         /\ Cardinality(present \cap ImageEntries) <= MaxFiles
         /\ present = {} \/ present \ ImageEntries # {}
         /\ dirs = IF present = {} THEN {} ELSE {"images"}
         /\ fs = [p \in AllPaths |->
                    IF \E i \in present : p = PathOf("orig", EntryName(Entries[i]))
                    THEN SourceFile(Entries[CHOOSE i \in present :
                                              p = PathOf("orig", EntryName(Entries[i]))])
                    ELSE Absent]
    /\ files = <<>>
    /\ idx = 1
    /\ pc = IF script = "part_000" THEN "ensureMagick" ELSE "scan"
    /\ branch = "primary"
    /\ stepNo = 1
    /\ exif = NoExif
    /\ dims = NoDims
    /\ err = ""
    /\ outcome = <<>>
    /\ log = <<>>

IdleFns ==
    /\ exifCall = IdleExifCall
    /\ exifRet = IdleExifRet
    /\ wmCall = IdleWmCall
    /\ wmRet = IdleWmRet

Init == InitPipeline /\ IdleFns

(***************************************************************************)
(* resize-images                                                           *)
(***************************************************************************)
file == files[idx]

CurPath == IF branch = "primary" THEN PrimaryPath(script) ELSE FallbackPath(script)

cur == CurPath[stepNo]

\* one call as the log keeps it; msg is the message of the error it raised
Entry(st, ok, x) == [step |-> st, branch |-> branch, ok |-> ok, exif |-> x, msg |-> ""]

\* an external command runs only if the toolchain exists and its input is an image
CanRun(path) == toolOk /\ fs[path].kind = "image"

\* what a failed command leaves at its output path: nothing new, or a
\* partially written file when it got as far as writing
FailureLeaves(in, out) ==
    {fs[out]} \cup (IF CanRun(in) THEN {PartialFile(branch)} ELSE {})

\* faulty variant: the handler writes the placeholder of the full tier only
FullPlaceholderOnly(f, name, errMessage, fallbackErrMessage) ==
    [f EXCEPT ![PathOf("outFull", name)] =
                  TextFile(PlaceholderText(name, errMessage, fallbackErrMessage), "placeholder")]

\* lines 183-184 (gulpfile.js 84-85)
ErrorPlaceholders(f, name, errMessage, fallbackErrMessage) ==
    [f EXCEPT ![PathOf("outFull", name)] =
                  TextFile(PlaceholderText(name, errMessage, fallbackErrMessage), "placeholder"),
              ![PathOf("outThumb", name)] =
                  TextFile(PlaceholderText(name, errMessage, fallbackErrMessage), "placeholder")]

\* a step raised: the outer handler (lines 171-173) starts the fallback, the
\* inner handler (lines 181-185) writes the placeholders and ends the file
Raise(msg, fsNew, entries) ==
    /\ log' = log \o [i \in 1..Len(entries) |-> [entries[i] EXCEPT !.msg = msg]]
    /\ dims' = NoDims
    /\ exif' = NoExif
    /\ IF branch = "primary"
       THEN /\ err' = msg
            /\ branch' = "fallback"
            /\ stepNo' = 1
            /\ pc' = "step"
            /\ fs' = fsNew
            /\ UNCHANGED <<idx, outcome>>
       ELSE /\ fs' = ErrorPlaceholders(fsNew, file, err, msg)
            /\ outcome' = Append(outcome, "Failure")
            /\ idx' = idx + 1
            /\ pc' = AfterFallbackError
            /\ UNCHANGED <<err, branch, stepNo>>
    /\ UNCHANGED <<script, toolOk, dirs, files>>
    /\ UNCHANGED fnVars

\* a step succeeded: on to the next one, or the file is done
Advance(fsNew, entries, exifNew) ==
    /\ log' = log \o entries
    /\ dims' = NoDims
    /\ exif' = exifNew
    /\ fs' = fsNew
    /\ IF stepNo < Len(CurPath)
       THEN /\ stepNo' = stepNo + 1
            /\ pc' = "step"
            /\ UNCHANGED <<idx, outcome>>
       ELSE /\ outcome' = Append(outcome, IF branch = "primary" THEN "Success"
                                          ELSE "FallbackSuccess")
            /\ idx' = idx + 1
            /\ pc' = "loop"
            /\ UNCHANGED stepNo
    /\ UNCHANGED <<script, toolOk, dirs, files, err, branch>>
    /\ UNCHANGED fnVars

\* lines 26-29 and 126
EnsureMagick ==
    /\ pc = "ensureMagick"
    /\ pc' = IF toolOk THEN "scan" ELSE "rejected"
    /\ UNCHANGED <<script, toolOk, dirs, fs, files, idx, branch, stepNo, exif, dims, err,
                   outcome, log>>
    /\ UNCHANGED fnVars

\* fs.readdirSync('images').filter(...)
Listing ==
    LET names == [i \in 1..Len(Entries) |-> EntryName(Entries[i])]
        ok(i) == IsImageName(Entries[i]) /\ fs[PathOf("orig", names[i])].kind # "absent"
        idxs == SelectSeq([i \in 1..Len(Entries) |-> i], ok)
    IN [k \in 1..Len(idxs) |-> names[idxs[k]]]

\* lines 128-141 (gulpfile.js 23-41)
Scan ==
    /\ pc = "scan"
    /\ IF "images" \notin dirs
       THEN pc' = "done" /\ UNCHANGED <<files, dirs>>
       ELSE /\ files' = Listing
            /\ IF Listing = <<>>
               THEN pc' = "done" /\ UNCHANGED dirs
               ELSE pc' = "loop" /\ dirs' = dirs \cup {"images/fulls", "images/thumbs"}
    /\ UNCHANGED <<script, toolOk, fs, idx, branch, stepNo, exif, dims, err, outcome, log>>
    /\ UNCHANGED fnVars

\* line 143 (gulpfile.js 43): the for loop takes the next file or ends
Loop ==
    /\ pc = "loop"
    /\ IF idx <= Len(files)
       THEN /\ pc' = "step"
            /\ branch' = "primary"
            /\ stepNo' = 1
            /\ log' = <<>>
            /\ err' = ""
            /\ exif' = NoExif
       ELSE /\ pc' = "done"
            /\ UNCHANGED <<branch, stepNo, log, err, exif>>
    /\ UNCHANGED <<script, toolOk, dirs, fs, files, idx, dims, outcome>>
    /\ UNCHANGED fnVars

\* line 152 and line 174: await readExif(orig)
ReadExifStep ==
    /\ pc = "step"
    /\ \E st \in {cur}, name \in {file} :
         /\ st.op = "readExif"
         /\ \E in \in {PathOf(st.in, name)}, ok \in BOOLEAN :
              /\ ok => CanRun(in)
              /\ \E r \in {readExif(ok, fs[in].exif)} :
                   IF r.raised
                   THEN Raise(CommandFailed(CommandLine(script, st, name)), fs,
                              <<Entry(st, FALSE, NoExif)>>)
                   ELSE Advance(fs, <<Entry(st, TRUE, r.rec)>>, r.rec)

\* line 155 (gulpfile.js 52): identify -verbose
IdentifyStep ==
    /\ pc = "step"
    /\ \E st \in {cur}, name \in {file} :
         /\ st.op = "identify"
         /\ \E ok \in BOOLEAN :
              /\ ok => CanRun(PathOf(st.in, name))
              /\ IF ok THEN Advance(fs, <<Entry(st, TRUE, NoExif)>>, exif)
                 ELSE Raise(CommandFailed(CommandLine(script, st, name)), fs,
                            <<Entry(st, FALSE, NoExif)>>)

\* lines 156, 160, 161, 176, 177 (gulpfile.js 57, 60, 64, 76, 77)
ConvertStep ==
    /\ pc = "step"
    /\ \E st \in {cur}, name \in {file} :
         /\ st.op = "convert"
         /\ \E in \in {PathOf(st.in, name)}, out \in {PathOf(st.out, name)}, ok \in BOOLEAN :
              /\ ok => CanRun(in)
              /\ IF ok
                 THEN Advance([fs EXCEPT ![out] = ConvertOutput(fs[in], st.box, branch)],
                              <<Entry(st, TRUE, NoExif)>>, exif)
                 ELSE \E left \in FailureLeaves(in, out), msg \in
                                  {CommandFailed(CommandLine(script, st, name))} :
                        Raise(msg, [fs EXCEPT ![out] = left], <<Entry(st, FALSE, NoExif)>>)

\* line 93: const { w, h } = await imageDims(inputPath)
WatermarkProbe ==
    /\ pc = "step"
    /\ \E st \in {cur}, name \in {file} :
         /\ st.op = "watermark"
         /\ \E in \in {PathOf(st.in, name)}, probe \in {[st EXCEPT !.op = "imageDims"]},
               ok \in BOOLEAN :
              /\ ok => CanRun(in)
              /\ IF ok
                 THEN /\ dims' = imageDims(DimsOutput(fs[in].w, fs[in].h))
                      /\ pc' = "composite"
                      /\ log' = Append(log, Entry(probe, TRUE, NoExif))
                      /\ UNCHANGED <<script, toolOk, dirs, fs, files, idx, branch, stepNo,
                                     exif, err, outcome>>
                      /\ UNCHANGED fnVars
                 ELSE Raise(CommandFailed(CommandLine(script, st, name)), fs,
                            <<Entry(probe, FALSE, NoExif)>>)

\* the bar and the line of text one addWatermark call draws
Watermark(g, text, exifInfo) ==
    [ps |-> g.ps, barHeight |-> g.barHeight, y0 |-> g.y0, textOffset |-> g.textOffset,
     w |-> g.w, h |-> g.h, text |-> text, exif |-> exifInfo]

\* lines 94-119: geometry, text and the compositing command
WatermarkComposite ==
    /\ pc = "composite"
    /\ \E st \in {cur}, name \in {file} :
         \E in \in {PathOf(st.in, name)}, out \in {PathOf(st.out, name)},
            g \in {WatermarkSpec(dims.w, dims.h, st.override)}, text \in {WatermarkText(exif)},
            c \in {Composited(fs[PathOf(st.in, name)].w, fs[PathOf(st.in, name)].h,
                              WatermarkSpec(dims.w, dims.h, st.override))},
            made \in {[st EXCEPT !.op = "composite"]}, ok \in BOOLEAN :
              /\ ok => CanRun(in)
              /\ IF ok
                 THEN Advance([fs EXCEPT ![out] =
                                  [fs[in] EXCEPT !.wm = Append(@, Watermark(g, text, exif)),
                                                 !.by = branch, !.w = c.w, !.h = c.h]],
                              <<Entry(made, TRUE, exif)>>, exif)
                 ELSE \E left \in FailureLeaves(in, out),
                         msg \in {CommandFailed(CompositeCommand(in, out, g, text))} :
                        Raise(msg, [fs EXCEPT ![out] = left], <<Entry(made, FALSE, exif)>>)

\* line 166: fs.copyFileSync(tempThumb, outThumb)
CopyStep ==
    /\ pc = "step"
    /\ \E st \in {cur}, name \in {file} :
         /\ st.op = "copy"
         /\ \E in \in {PathOf(st.in, name)}, out \in {PathOf(st.out, name)}, ok \in BOOLEAN :
              /\ ok => fs[in].kind # "absent"
              /\ IF ok
                 THEN Advance([fs EXCEPT ![out] = [fs[in] EXCEPT !.by = branch]],
                              <<Entry(st, TRUE, NoExif)>>, exif)
                 ELSE \E left \in {fs[out]} \cup
                                  (IF fs[in].kind # "absent" THEN {PartialFile(branch)}
                                   ELSE {}) :
                        Raise("copyfile '" \o in \o "' -> '" \o out \o "'",
                              [fs EXCEPT ![out] = left], <<Entry(st, FALSE, NoExif)>>)

\* the file system after existsSync(p) && unlinkSync(p) for the first k paths
Unlinked(f, name, k) ==
    [p \in DOMAIN f |->
        IF \E i \in 1..k : p = PathOf(CleanupRoles[i], name) THEN Absent ELSE f[p]]

\* line 169: [temp, tempFull, tempThumb].forEach(p => existsSync(p) && unlinkSync(p));
\* an unlinkSync that throws ends the forEach
CleanupStep ==
    /\ pc = "step"
    /\ \E st \in {cur}, name \in {file} :
         /\ st.op = "cleanup"
         /\ \E k \in 0..Len(CleanupRoles) :
              IF k = Len(CleanupRoles)
              THEN Advance(Unlinked(fs, name, k), <<Entry(st, TRUE, NoExif)>>, exif)
              ELSE \E p \in {PathOf(CleanupRoles[k + 1], name)} :
                     /\ fs[p].kind # "absent"
                     /\ Raise("unlink '" \o p \o "'", Unlinked(fs, name, k),
                              <<Entry(st, FALSE, NoExif)>>)

\* gulpfile.js line 68: fs.unlinkSync(tempPath)
UnlinkStep ==
    /\ pc = "step"
    /\ \E st \in {cur}, name \in {file} :
         /\ st.op = "unlink"
         /\ \E in \in {PathOf(st.in, name)}, ok \in BOOLEAN :
              /\ ok => fs[in].kind # "absent"
              /\ IF ok
                 THEN Advance([fs EXCEPT ![in] = Absent], <<Entry(st, TRUE, NoExif)>>, exif)
                 ELSE Raise("unlink '" \o in \o "'", fs, <<Entry(st, FALSE, NoExif)>>)

PipelineNext ==
    \/ EnsureMagick
    \/ Scan
    \/ Loop
    \/ ReadExifStep
    \/ IdentifyStep
    \/ ConvertStep
    \/ WatermarkProbe
    \/ WatermarkComposite
    \/ CopyStep
    \/ CleanupStep
    \/ UnlinkStep

Next == PipelineNext

Spec == Init /\ [][Next]_vars

\* every external command and file operation returns or fails: the awaited
\* step of the sequential task is eventually taken
FairSpec == Spec /\ WF_vars(Next)

(***************************************************************************)
(* readExif on its own: every outcome of the identify command              *)
(***************************************************************************)
\* the pipeline at rest while a single function is exercised
PipelineAtRest ==
    /\ script = "part_000"
    /\ toolOk = TRUE
    /\ dirs = {}
    /\ fs = [p \in AllPaths |-> Absent]
    /\ files = <<>>
    /\ idx = 1
    /\ pc = "done"
    /\ branch = "primary"
    /\ stepNo = 1
    /\ exif = NoExif
    /\ dims = NoDims
    /\ err = ""
    /\ outcome = <<>>
    /\ log = <<>>

\* the values the seven EXIF properties take in the outputs tried
ModelTexts ==
    {<<>>, <<"D", "9", "0">>}

FNumberTexts ==
    {<<>>, <<"2", "8", "/", "1", "0">>, <<"4">>, <<"a", "b", "c">>, <<"1", "/", "0">>,
     <<"a", "/", "2">>, <<"4", "/", "x">>}

ApertureTexts ==
    {<<>>, <<"3">>, <<"5", "/", "2">>, <<"4">>, <<"0">>, <<"6">>, <<"1">>, <<"-", "1">>,
     <<"a", "b", "c">>}

ExposureTexts ==
    {<<>>, <<"1", "/", "2", "5", "0">>, <<"0", ".", "5">>, <<"2">>, <<"0">>, <<"1">>,
     <<"3", "0">>, <<"2", ".", "5">>, <<"0", ".", "0", "0", "4">>, <<"a", "b", "c">>,
     <<"1", "/", "0">>}

ShutterTexts ==
    {<<>>, <<"8">>, <<"-", "1">>, <<"0">>, <<"3">>, <<"1">>, <<"-", "2">>,
     <<"-", "3", "/", "2">>, <<"1", "5", "/", "2">>, <<"a", "b", "c">>}

IsoTexts ==
    {<<>>, <<"4", "0", "0">>}

SensitivityTexts ==
    {<<>>, <<"2", "0", "0">>}

\* the property values tried: every f-number with every aperture value, and
\* every exposure time with every shutter speed value
ExifInputs ==
    {<<m, f, av, <<>>, <<>>, ia, ib>> :
        m \in ModelTexts, f \in FNumberTexts, av \in ApertureTexts,
        ia \in IsoTexts, ib \in SensitivityTexts}
    \cup {<<m, f, <<>>, e, ssv, ia, <<>> >> :
        m \in ModelTexts, f \in {<<>>, <<"4">>}, e \in ExposureTexts, ssv \in ShutterTexts,
        ia \in IsoTexts}

NoFields == [i \in 1..7 |-> <<>>]

\* what magick identify -format "%[EXIF:Model]|...|%[EXIF:PhotographicSensitivity]" prints
\* for the property values fields
ExifOutput(fields) == Join(fields, <<"|">>)

\* the calls tried: the property values of the file and the output of the
\* command; the output may also be empty or a bare newline
ExifCalls ==
    UNION {[cmdOk : BOOLEAN, stdout : {ExifOutput(f), ExifOutput(f) \o <<"\n">>}, fields : {f}] :
              f \in ExifInputs}
    \cup [cmdOk : BOOLEAN, stdout : {<<>>, <<"\n">>}, fields : {NoFields}]

InitExif ==
    /\ PipelineAtRest
    /\ exifCall \in ExifCalls
    /\ exifRet = IdleExifRet
    /\ wmCall = IdleWmCall
    /\ wmRet = IdleWmRet

\* lines 41-84: one call of readExif
CallReadExif ==
    /\ exifRet.state = "idle"
    /\ \E r \in {readExif(exifCall.cmdOk, exifCall.stdout)} :
         exifRet' = [state |-> IF r.raised THEN "raised" ELSE "returned", rec |-> r.rec]
    /\ UNCHANGED <<exifCall, wmCall, wmRet>>
    /\ UNCHANGED pipeVars

NextExif == CallReadExif

SpecExif == InitExif /\ [][NextExif]_vars

(***************************************************************************)
(* addWatermark's geometry and text on their own                           *)
(***************************************************************************)
ProbedWidths == {0, 1, 300, 512, 1024, 2000}

ProbedHeights == {0, 1, 49, 50, 51, 122, 123, 124, 400, 1500}

Overrides == {NoOverride, <<0>>, <<14>>, <<40>>}

ExifInfos ==
    [model : {Camera, <<"D", "9", "0">>},
     fNumber : {<<>>, <<"2", ".", "8">>},
     exposure : {<<>>, <<"1", "/", "2", "5", "0">>},
     iso : {<<>>, <<"4", "0", "0">>}]

InitWm ==
    /\ PipelineAtRest
    /\ exifCall = IdleExifCall
    /\ exifRet = IdleExifRet
    /\ wmCall \in [w : ProbedWidths, h : ProbedHeights, override : Overrides,
                   exifInfo : ExifInfos, inPlace : BOOLEAN]
    /\ wmRet = IdleWmRet

\* lines 93-119 for an input of w x h pixels: the probe, the geometry, the
\* text and the image written
AddWatermarkResult(w, h, pointSizeOverride, exifInfo) ==
    Only({Only({[g |-> g, text |-> WatermarkText(exifInfo), out |-> Composited(w, h, g)]
                : g \in {WatermarkSpec(d.w, d.h, pointSizeOverride)}})
          : d \in {imageDims(DimsOutput(w, h))}})

\* one addWatermark call
CallWatermark ==
    /\ wmRet.state = "idle"
    /\ \E r \in {AddWatermarkResult(wmCall.w, wmCall.h, wmCall.override, wmCall.exifInfo)} :
         wmRet' = [state |-> "returned", g |-> r.g, text |-> r.text, prev |-> wmRet.g,
                   out |-> r.out]
    /\ UNCHANGED <<exifCall, exifRet, wmCall>>
    /\ UNCHANGED pipeVars

\* the image a second call with the same arguments reads: the one the first
\* call wrote when input and output are the same path (lines 178-179), the
\* untouched input otherwise
SecondInput == IF wmCall.inPlace THEN wmRet.out ELSE [w |-> wmCall.w, h |-> wmCall.h]

\* a second addWatermark call with the same metadata and point size
CallWatermarkAgain ==
    /\ wmRet.state = "returned"
    /\ \E in \in {SecondInput} :
       \E r \in {AddWatermarkResult(in.w, in.h, wmCall.override, wmCall.exifInfo)} :
         wmRet' = [state |-> "again", g |-> r.g, text |-> r.text, prev |-> wmRet.g,
                   out |-> r.out]
    /\ UNCHANGED <<exifCall, exifRet, wmCall>>
    /\ UNCHANGED pipeVars

NextWm == CallWatermark \/ CallWatermarkAgain

SpecWm == InitWm /\ [][NextWm]_vars

(***************************************************************************)
(* Properties of the resize-images task                                    *)
(***************************************************************************)
Outcomes == {"Success", "FallbackSuccess", "Failure"}

\* the for loop has just finished a file: log, branch and err are still that file's
FileEnded == pc \in {"loop", "done"} /\ idx > 1

ended == files[idx - 1]

endedOutcome == outcome[idx - 1]

\* the file the log belongs to
logFile == IF pc \in {"step", "composite"} THEN files[idx] ELSE files[idx - 1]

PrimaryFailures == {i \in DOMAIN log : log[i].branch = "primary" /\ ~log[i].ok}

FallbackEntries == {i \in DOMAIN log : log[i].branch = "fallback"}

FallbackFailures == {i \in FallbackEntries : ~log[i].ok}

\* written while a file was processed (not a source file, not a placeholder)
Produced(f) == f.by \in {"primary", "fallback"}

\* C1: once processing of a file has ended, whatever its outcome, none of the
\* temporary intermediates its processing wrote (temp_<file>, temp_full_<file>,
\* temp_thumb_<file>) exists any more.
C1_TemporariesDiscarded ==
    FileEnded => \A r \in TempRoles : ~Produced(fs[PathOf(r, ended)])

\* C2: every finished file has exactly one outcome out of Success,
\* FallbackSuccess and Failure, and whenever the loop is at a file boundary the
\* task eventually ends normally with every listed file processed, whatever
\* failed on the way.
C2_BatchNeverAborted ==
    /\ [](/\ Len(outcome) = idx - 1
          /\ \A i \in DOMAIN outcome : outcome[i] \in Outcomes)
    /\ (pc = "loop") ~> (pc = "done" /\ Len(outcome) = Len(files))

\* a file failed in both paths and the file after it was still processed
C2_Witness ==
    /\ pc = "done"
    /\ Len(outcome) = 2
    /\ outcome[1] = "Failure"
    /\ outcome[2] = "Success"

\* C3: when both paths of a file raised, both destinations hold
\* "ERROR PROCESSING: <file>\n<message of the primary failure>" once the file
\* has ended, also when the fallback had written a destination before failing.
C3_PlaceholdersInBothTiers ==
    (FileEnded /\ endedOutcome = "Failure") =>
        /\ Cardinality(PrimaryFailures) = 1
        /\ \A i \in PrimaryFailures, r \in {"outFull", "outThumb"} :
             /\ fs[PathOf(r, ended)].kind = "text"
             /\ fs[PathOf(r, ended)].text
                  = "ERROR PROCESSING: " \o ended \o "\n" \o log[i].msg

\* the fallback wrote the full destination, then failed with another message
\* than the primary path's
C3_Witness ==
    /\ FileEnded
    /\ endedOutcome = "Failure"
    /\ \E i \in FallbackEntries :
         log[i].ok /\ log[i].step.op = "convert" /\ log[i].step.out = "outFull"
    /\ \E i \in PrimaryFailures, j \in FallbackFailures : log[i].msg # log[j].msg

\* C4: readExif never raises: whatever the identify command does, failing
\* included, it returns a record with a non-empty model.
C4_ReadExifNeverRaises ==
    exifRet.state # "idle" => (exifRet.state = "returned" /\ exifRet.rec.model # <<>>)

ReadExifEntries == {i \in DOMAIN log : log[i].step.op = "readExif"}

\* C5: every metadata read takes images/<file>, the original source path, and
\* none of the file's intermediates; in the primary path it comes before the
\* normalize step; the record it returns is what identify reports for the file
\* at that path, and it is the record a later watermark of that path draws.
C5_MetadataFromOriginal ==
    /\ \A i \in ReadExifEntries :
         /\ PathOf(log[i].step.in, logFile) = "images/" \o logFile
         /\ \A r \in Roles \ {"orig"} : PathOf(log[i].step.in, logFile) # PathOf(r, logFile)
         /\ log[i].ok => log[i].exif = ParseExif(fs[PathOf("orig", logFile)].exif)
    /\ \A i \in ReadExifEntries, j \in DOMAIN log :
         (/\ log[i].branch = "primary"
          /\ log[j].branch = "primary"
          /\ log[j].step.op = "convert"
          /\ log[j].step.out = "temp") => i < j
    /\ \A j \in DOMAIN log :
         log[j].step.op = "composite" =>
             \E i \in ReadExifEntries :
                 /\ i < j
                 /\ log[i].ok
                 /\ log[i].branch = log[j].branch
                 /\ log[i].exif = log[j].exif

\* a file with EXIF data was normalized (stripped) and then watermarked
C5_Witness ==
    /\ \E j \in DOMAIN log : log[j].step.op = "convert" /\ log[j].step.out = "temp" /\ log[j].ok
    /\ \E j \in DOMAIN log :
         /\ log[j].step.op = "composite"
         /\ log[j].ok
         /\ log[j].exif.fNumber # <<>>
         /\ log[j].exif # ParseExif(StrippedExif)

\* the tier a step works for
Tier(role) ==
    IF role \in {"tempFull", "outFull"} THEN "full"
    ELSE IF role \in {"tempThumb", "outThumb"} THEN "thumb"
    ELSE role

\* the same external step: same operation, same size, same tier
SameStep(a, b) == a.op = b.op /\ a.box = b.box /\ Tier(a.out) = Tier(b.out)

\* C6: the fallback path of a file is entered exactly when a primary step
\* raised, after that failure and once; no step of it runs twice, and no
\* external step runs more than twice for one file.
C6_FallbackOnceAfterPrimaryFailure ==
    /\ (branch = "fallback") <=> (PrimaryFailures # {})
    /\ Cardinality(PrimaryFailures) <= 1
    /\ \A i \in FallbackEntries, j \in DOMAIN log :
         /\ j \in PrimaryFailures => j < i
         /\ j > i => log[j].branch = "fallback"
         /\ (j # i /\ j \in FallbackEntries) => log[j].step # log[i].step
    /\ \A i \in DOMAIN log :
         Cardinality({j \in DOMAIN log : SameStep(log[j].step, log[i].step)}) <= 2
    /\ FileEnded => ((endedOutcome = "Success") <=> (PrimaryFailures = {}))

\* the primary path failed at its last step and the fallback ran to its end
C6_Witness ==
    /\ FileEnded
    /\ endedOutcome = "FallbackSuccess"
    /\ \E i \in PrimaryFailures : log[i].step.op \in {"cleanup", "unlink"}
    /\ \E i \in DOMAIN log :
         Cardinality({j \in DOMAIN log : SameStep(log[j].step, log[i].step)}) = 2

\* Math.max(14, Math.round(w * 0.028)), written out
ComputedPointSize(w) ==
    IF (2 * 28 * w + 1000) \div 2000 > 14 THEN (2 * 28 * w + 1000) \div 2000 ELSE 14

\* C7: in src/unnamed/part_000, a file that ended in Success has its full
\* output watermarked once and its thumb output never; a file that ended in
\* FallbackSuccess has both watermarked once, the full one at the computed
\* point size and the thumb at 14.
C7_WatermarkCounts ==
    script = "part_000" =>
        \A i \in DOMAIN outcome :
            /\ outcome[i] = "Success" =>
                 /\ fs[PathOf("outFull", files[i])].kind = "image"
                 /\ fs[PathOf("outThumb", files[i])].kind = "image"
                 /\ Len(fs[PathOf("outFull", files[i])].wm) = 1
                 /\ Len(fs[PathOf("outThumb", files[i])].wm) = 0
            /\ outcome[i] = "FallbackSuccess" =>
                 /\ fs[PathOf("outFull", files[i])].kind = "image"
                 /\ fs[PathOf("outThumb", files[i])].kind = "image"
                 /\ Len(fs[PathOf("outFull", files[i])].wm) = 1
                 /\ Len(fs[PathOf("outThumb", files[i])].wm) = 1
                 /\ fs[PathOf("outFull", files[i])].wm[1].ps
                      = ComputedPointSize(fs[PathOf("outFull", files[i])].w)
                 /\ fs[PathOf("outThumb", files[i])].wm[1].ps = 14

\* the primary path had watermarked the full output, then failed, and the
\* fallback succeeded
C7_Witness ==
    /\ script = "part_000"
    /\ FileEnded
    /\ endedOutcome = "FallbackSuccess"
    /\ \E i \in DOMAIN log :
         log[i].branch = "primary" /\ log[i].step.op = "composite" /\ log[i].ok
    /\ fs[PathOf("outFull", ended)].wm[1].ps > 14

\* C8: when the toolchain cannot be invoked, no output directory is created,
\* no output image or placeholder is written and no file's path is started.
C8_ToolchainMissingIsFatal ==
    ~toolOk =>
        /\ dirs \subseteq {"images"}
        /\ pc \notin {"loop", "step", "composite"}
        /\ outcome = <<>>
        /\ \A p \in DOMAIN fs : fs[p].by \notin {"primary", "fallback", "placeholder"}

\* the fragment a field contributes to the line, with the separator before it
Fragment(label, value) == IF value = <<>> THEN <<>> ELSE Separator \o label \o value

\* the line as the watermark is described: the model fragment, then one
\* fragment per non-empty field
ExpectedText(x) ==
    <<CameraIcon, " ">> \o x.model
    \o Fragment(<<Bullet, " ", "f", "/">>, x.fNumber)
    \o Fragment(<<Bullet, " ">>, x.exposure)
    \o Fragment(<<Bullet, " ", "I", "S", "O", " ">>, x.iso)

\* t occurs in s as a contiguous run
Occurs(t, s) == \E i \in 1..(Len(s) - Len(t) + 1) : SubSeq(s, i, i + Len(t) - 1) = t

\* C9: the watermark text is the model fragment followed, in the order
\* f-number, exposure, ISO, by one fragment per non-empty field, joined by the
\* separator: one bullet per non-empty field, no doubled, leading or trailing
\* separator.
C9_WatermarkTextFragments ==
    wmRet.state = "returned" =>
        /\ wmRet.text = ExpectedText(wmCall.exifInfo)
        /\ Cardinality({i \in DOMAIN wmRet.text : wmRet.text[i] = Bullet})
             = Cardinality({k \in {"fNumber", "exposure", "iso"} : wmCall.exifInfo[k] # <<>>})
        /\ ~Occurs(Separator \o <<" ">>, wmRet.text)
        /\ wmRet.text[1] = CameraIcon
        /\ wmRet.text[Len(wmRet.text)] # " "

\* a record whose f-number and ISO are empty and whose exposure is not
C9_Witness ==
    /\ wmRet.state = "returned"
    /\ wmCall.exifInfo.fNumber = <<>>
    /\ wmCall.exifInfo.exposure # <<>>
    /\ wmCall.exifInfo.iso = <<>>
    /\ Occurs(Separator, wmRet.text)

\* C10: for the probed width and height, the bar top is max(0, h - barHeight),
\* lies between 0 and h, and is 0 whenever the image is lower than the bar.
C10_BarTopWithinImage ==
    wmRet.state = "returned" =>
        /\ wmRet.g.w = wmCall.w
        /\ wmRet.g.h = wmCall.h
        /\ wmRet.g.barHeight >= 50
        /\ wmRet.g.y0 = (IF wmCall.h > wmRet.g.barHeight THEN wmCall.h - wmRet.g.barHeight
                         ELSE 0)
        /\ 0 <= wmRet.g.y0
        /\ wmRet.g.y0 <= wmCall.h
        /\ wmCall.h < wmRet.g.barHeight => wmRet.g.y0 = 0

\* an image lower than its bar
C10_Witness ==
    /\ wmRet.state = "returned"
    /\ wmCall.h > 0
    /\ wmCall.h < wmRet.g.barHeight
    /\ wmRet.g.y0 = 0


(***************************************************************************)
(* C11: when the f-number property is missing and the APEX aperture value  *)
(* av is present, the resolved f-number is sqrt(2)^av rounded to one       *)
(* decimal with a trailing .0 removed (for an even integer av the integer  *)
(* 2^(av/2)); when the f-number property is present it is the one used and *)
(* the aperture value has no influence on the result.                      *)
(***************************************************************************)
Returned == exifRet.state = "returned"

\* sqrt(2)^av to one decimal, computed by hand for the aperture values tried
ApertureTable ==
    [av \in {<<"3">>, <<"5", "/", "2">>, <<"4">>, <<"0">>, <<"6">>, <<"1">>, <<"-", "1">>} |->
        CASE av = <<"3">> -> <<"2", ".", "8">>
          [] av = <<"5", "/", "2">> -> <<"2", ".", "4">>
          [] av = <<"4">> -> <<"4">>
          [] av = <<"0">> -> <<"1">>
          [] av = <<"6">> -> <<"8">>
          [] av = <<"1">> -> <<"1", ".", "4">>
          [] av = <<"-", "1">> -> <<"0", ".", "7">>]

EvenApertures == {<<"0">>, <<"4">>, <<"6">>}

C11_ApertureFallback ==
    Returned =>
        /\ (exifCall.fields[2] = <<>> /\ exifCall.fields[3] \in DOMAIN ApertureTable
              => exifRet.rec.fNumber = ApertureTable[exifCall.fields[3]])
        /\ (exifCall.fields[2] = <<>> /\ exifCall.fields[3] \in EvenApertures
              => exifRet.rec.fNumber = NatToStr(Pow2(StrToNat(exifCall.fields[3]) \div 2)))
        /\ (exifCall.fields[2] # <<>>
              => exifRet.rec.fNumber = ResolveFNumber(exifCall.fields[2], <<>>))

C11_Witness ==
    /\ Returned
    /\ exifCall.fields[2] = <<>>
    /\ exifCall.fields[3] = <<"6">>
    /\ exifRet.rec.fNumber = <<"8">>

(***************************************************************************)
(* C12: when the exposure time property is missing and the APEX shutter    *)
(* speed value tv is present, with t = 2^-tv the resolved exposure is      *)
(* "1/" round(1/t) when t < 1 (for an integer tv > 0: "1/" 2^tv) and t     *)
(* rounded to one decimal followed by "s" otherwise; the later             *)
(* re-formatting of bare numbers leaves this text as it is.                *)
(***************************************************************************)
\* the exposure computed by hand for the shutter speed values tried
ShutterTable ==
    [tv \in {<<"8">>, <<"3">>, <<"1">>, <<"0">>, <<"-", "1">>, <<"-", "2">>,
             <<"-", "3", "/", "2">>, <<"1", "5", "/", "2">>} |->
        CASE tv = <<"8">> -> <<"1", "/", "2", "5", "6">>
          [] tv = <<"3">> -> <<"1", "/", "8">>
          [] tv = <<"1">> -> <<"1", "/", "2">>
          [] tv = <<"0">> -> <<"1", "s">>
          [] tv = <<"-", "1">> -> <<"2", "s">>
          [] tv = <<"-", "2">> -> <<"4", "s">>
          [] tv = <<"-", "3", "/", "2">> -> <<"2", ".", "8", "s">>
          [] tv = <<"1", "5", "/", "2">> -> <<"1", "/", "1", "8", "1">>]

PositiveShutters == {<<"8">>, <<"3">>, <<"1">>}

ApexDerived == Returned /\ exifCall.fields[4] = <<>> /\ exifCall.fields[5] \in DOMAIN ShutterTable

C12_ShutterFallback ==
    ApexDerived =>
        /\ exifRet.rec.exposure = ShutterTable[exifCall.fields[5]]
        /\ exifCall.fields[5] \in PositiveShutters
             => exifRet.rec.exposure
                  = <<"1", "/">> \o NatToStr(Pow2(StrToNat(exifCall.fields[5])))
        /\ exifRet.rec.exposure
             = ShutterExposure(<<>>, rationalToFloat(exifCall.fields[5]))
        /\ DisplayExposure(exifRet.rec.exposure) = exifRet.rec.exposure

C12_Witness ==
    /\ ApexDerived
    /\ exifCall.fields[5] = <<"-", "1">>
    /\ exifRet.rec.exposure = <<"2", "s">>

Unparseable == {<<"a", "b", "c">>, <<"1", "/", "0">>, <<"4", "/", "x">>}

C14_UnparseableYieldsEmpty ==
    Returned =>
        /\ exifCall.fields[2] \in Unparseable
             => /\ rationalToFloat(exifCall.fields[2]) = Null
                /\ exifRet.rec.fNumber = <<>>
        /\ exifCall.fields[4] \in Unparseable
             => /\ rationalToFloat(exifCall.fields[4]) = Null
                /\ exifRet.rec.exposure = <<>>

(***************************************************************************)
(* C15: in src/unnamed/part_000, a failure of the metadata read of the     *)
(* primary path does not by itself abort the file: the primary path goes   *)
(* on with its remaining steps, and a file for which nothing but metadata  *)
(* reads failed ends with image outputs (Success or FallbackSuccess),      *)
(* never with placeholders.                                                *)
(***************************************************************************)
MetadataReadFailures == {i \in DOMAIN log : log[i].step.op = "readExif" /\ ~log[i].ok}

OnlyMetadataFailed == \A i \in DOMAIN log : ~log[i].ok => i \in MetadataReadFailures

C15_MetadataFailureNotFatal ==
    (/\ script = "part_000"
     /\ FileEnded
     /\ \E i \in MetadataReadFailures : log[i].branch = "primary") =>
        /\ \E j \in DOMAIN log : log[j].branch = "primary" /\ log[j].step.op = "convert"
        /\ OnlyMetadataFailed => endedOutcome \in {"Success", "FallbackSuccess"}

(***************************************************************************)
(* C16: processing never writes to, overwrites or deletes a source image   *)
(* of the batch: every listed file is still in images/ as it was found,    *)
(* and no working path temp_<file>, temp_full_<file> or temp_thumb_<file>  *)
(* is the source path of a listed file.                                    *)
(***************************************************************************)
\* the directory entry a listed name stands for
EntryOf(name) == Entries[CHOOSE i \in 1..Len(Entries) : EntryName(Entries[i]) = name]

C16_SourcesUntouched ==
    \A k \in DOMAIN files :
        /\ fs[PathOf("orig", files[k])] = SourceFile(EntryOf(files[k]))
        /\ \A j \in DOMAIN files, r \in TempRoles :
             PathOf(r, files[k]) # PathOf("orig", files[j])

(***************************************************************************)
(* C17: the point size is the override whenever one is supplied, 0         *)
(* included, and max(14, round(w * 0.028)) otherwise; the bar height is    *)
(* max(50, round(ps * 2.2)); without an override the point size is at      *)
(* least 14 and the bar height at least 50, and the bar height is never    *)
(* below round(ps * 2.2).                                                  *)
(***************************************************************************)
\* Math.round(ps * 2.2) for a natural ps
ScaledPointSize(ps) == (44 * ps + 10) \div 20

C17_PointSizeAndBarHeight ==
    wmRet.state = "returned" =>
        /\ wmCall.override # NoOverride => wmRet.g.ps = wmCall.override[1]
        /\ wmCall.override = NoOverride =>
             /\ wmRet.g.ps = ComputedPointSize(wmCall.w)
             /\ wmRet.g.ps >= 14
             /\ wmRet.g.barHeight >= 50
        /\ wmRet.g.barHeight
             = (IF ScaledPointSize(wmRet.g.ps) > 50 THEN ScaledPointSize(wmRet.g.ps) ELSE 50)
        /\ wmRet.g.barHeight >= ScaledPointSize(wmRet.g.ps)

(***************************************************************************)
(* C18: an exposure time that is a bare number t >= 0 (no '/'), t = 0 and  *)
(* the integers from 1 on included, is re-formatted as "1/n" with          *)
(* n = round(1/t) a positive integer when t < 1 and as "<t>s" when         *)
(* t >= 1; a value containing '/' is left as it is; the exposure of the    *)
(* record is always empty, "a/b" with finite integer parts, or a number    *)
(* followed by "s".                                                        *)
(***************************************************************************)
\* the exposure computed by hand for the positive bare numbers tried
ExposureTable ==
    [e \in {<<"0", ".", "5">>, <<"0", ".", "0", "0", "4">>, <<"1">>, <<"2">>, <<"3", "0">>,
            <<"2", ".", "5">>} |->
        CASE e = <<"0", ".", "5">> -> <<"1", "/", "2">>
          [] e = <<"0", ".", "0", "0", "4">> -> <<"1", "/", "2", "5", "0">>
          [] e = <<"1">> -> <<"1", "s">>
          [] e = <<"2">> -> <<"2", "s">>
          [] e = <<"3", "0">> -> <<"3", "0", "s">>
          [] e = <<"2", ".", "5">> -> <<"2", ".", "5", "s">>]

BelowOneSecond == {<<"0">>, <<"0", ".", "5">>, <<"0", ".", "0", "0", "4">>}

IsRatioText(s) ==
    /\ Includes(s, "/")
    /\ Len(Split(s, "/")) = 2
    /\ \A i \in 1..2 : Split(s, "/")[i] # <<>> /\ AllDigits(Split(s, "/")[i])

IsSecondsText(s) ==
    /\ Len(s) >= 2
    /\ s[Len(s)] = "s"
    /\ IsFinite(ToNumber(SubSeq(s, 1, Len(s) - 1)))

C18_BareExposureReformatted ==
    Returned =>
        /\ exifCall.fields[4] \in DOMAIN ExposureTable
             => exifRet.rec.exposure = ExposureTable[exifCall.fields[4]]
        /\ exifCall.fields[4] \in BelowOneSecond
             => \E n \in 1..1000 : exifRet.rec.exposure = <<"1", "/">> \o NatToStr(n)
        /\ Includes(exifCall.fields[4], "/") => exifRet.rec.exposure = exifCall.fields[4]
        /\ \/ exifRet.rec.exposure = <<>>
           \/ IsRatioText(exifRet.rec.exposure)
           \/ IsSecondsText(exifRet.rec.exposure)

(***************************************************************************)
(* C19: when the processing of a file has ended, its full output and its   *)
(* thumb output were produced by the same branch: both are images of the   *)
(* primary path (Success), both images of the fallback (FallbackSuccess),  *)
(* or both placeholders (Failure); never one of each, never one missing.   *)
(***************************************************************************)
endedFull == fs[PathOf("outFull", ended)]

endedThumb == fs[PathOf("outThumb", ended)]

C19_TiersFromSameBranch ==
    FileEnded =>
        /\ endedFull.by = endedThumb.by
        /\ endedFull.kind = endedThumb.kind
        /\ endedOutcome = "Success" => endedFull.by = "primary" /\ endedFull.kind = "image"
        /\ endedOutcome = "FallbackSuccess"
             => endedFull.by = "fallback" /\ endedFull.kind = "image"
        /\ endedOutcome = "Failure" => endedFull.by = "placeholder" /\ endedFull.kind = "text"

\* the primary path had written the full output and then failed; the fallback
\* replaced it and wrote the thumb
C19_Witness ==
    /\ FileEnded
    /\ endedOutcome = "FallbackSuccess"
    /\ \E i \in DOMAIN log :
         /\ log[i].branch = "primary"
         /\ log[i].ok
         /\ log[i].step.out = "outFull"
    /\ endedFull.by = "fallback"
    /\ endedThumb.by = "fallback"
=============================================================================
